---------------------------- MODULE Spec2Model ----------------------------
(***************************************************************************)
(* iaito: the pdc command decompiler (R2pdcCmdDecompiler) and the plugin   *)
(* registry (PluginManager).                                               *)
(*                                                                         *)
(* Three specifications share the variables below:                         *)
(*   SpecDecompiler  R2pdcCmdDecompiler::decompileAt and its completion    *)
(*                   lambda, statement by statement on the GUI thread,     *)
(*                   with the backend task completing on a worker.         *)
(*   Spec            PluginManager::loadPlugins / destroyPlugins.          *)
(*   SpecResolver    PluginManager::getPluginDirectories as a function of  *)
(*                   the platform's locations and the build's extra dirs.  *)
(***************************************************************************)
EXTENDS Integers, Sequences, FiniteSets, TLC

(***************************************************************************)
(* Bounds of the model.                                                    *)
(***************************************************************************)
\* decompileAt invocations in one behaviour
MaxCalls == 3
\* modules (native files and script entries) on disk, over all directories
MaxModules == 3
\* loadPlugins calls in one behaviour
MaxLoads == 2
\* parts of the extra-directories list
MaxExtra == 2
\* entries of the annotations array, and of the errors array, of a payload
MaxEntries == 2

VARIABLES
    \* ---- R2pdcCmdDecompiler ------------------------------------------
    task,        \* the member `task`: Null or the id of an R2Task
    live,        \* R2Task objects allocated and not deleted
    connected,   \* tasks whose finished signal has the lambda connected
    started,     \* tasks on which startTask() was called
    cmd,         \* task id -> address of its "pdcj @ <addr>" command (0: none)
    result,      \* task id -> index in Payloads of its result (0: not complete)
    delivered,   \* tasks whose finished signal has been emitted
    stack,       \* GUI-thread call stack, innermost frame first
    json,        \* the lambda's local `json` (payload index whose object() it holds)
    emitted,     \* finished(...) emissions of the decompiler, in order
    nCalls,      \* decompileAt invocations so far
    nAccepted,   \* invocations that passed the `if (task)` guard
    nextId,      \* next fresh R2Task id
    \* ---- the build and the platform --------------------------------------
    assertsEnabled, \* whether assert() is compiled in (no NDEBUG)
    pythonBindings, \* whether IAITO_ENABLE_PYTHON_BINDINGS is defined
    writableLoc,    \* QStandardPaths::writableLocation(AppDataLocation), <<>>: empty
    stdLocs,        \* QStandardPaths::standardLocations(AppDataLocation)
    extraParts,     \* IAITO_EXTRA_PLUGIN_DIRS cut at the list separator
    resolved,       \* what the last getPluginDirectories() call returned
    \* ---- the file system and the loaders' caches -------------------------
    fs,          \* directory -> "?" (not looked at yet), "yes" or "no"
    mkdirs,      \* directories mkpath()/mkdir() was called for
    nfiles,      \* directory -> entries of its entryList (-1: not listed yet)
    cache,       \* native file -> the root instance QPluginLoader holds (0: none)
    known,       \* file -> "?" (not read yet), or whether it holds a plugin
    \* ---- PluginManager ---------------------------------------------------
    plugins,     \* the member `plugins`: the active set, in load order
    pmpc,        \* where the registry's caller is
    queue,       \* roots loadPlugins still has to scan, with their writable flag
    idx,         \* index of the next entry of the directory being scanned
    gil,         \* PythonManager::ThreadHolder objects alive
    pyCur,       \* the plugin loadPythonPlugin returned, before it is set up
    last,        \* the last load attempt: module, outcome, instance
    log,         \* load attempts of the current loadPlugins call, in scan order
    base,        \* the active set when the current loadPlugins call began
    scanned,     \* roots the current loadPlugins call has scanned, in order
    lastCall,    \* the last registry operation and how it ended
    setupCount,  \* instance -> setupPlugin() calls on it
    termCount,   \* instance -> terminate() calls on it
    deleted,     \* instances that were deleted
    uaf,         \* a deleted instance was used (undefined behaviour happened)
    nextInst,    \* next fresh plugin instance
    nLoads,      \* loadPlugins calls so far
    input,       \* a non-empty payload object given to the translation
    output       \* the code object the translation made of it

decVars == <<task, live, connected, started, cmd, result, delivered, stack,
             json, emitted, nCalls, nAccepted, nextId>>

cfgVars == <<assertsEnabled, pythonBindings, writableLoc, stdLocs, extraParts>>

pmVars == <<fs, mkdirs, nfiles, cache, known, plugins, pmpc, queue, idx, gil, pyCur,
            last, log, base, scanned, lastCall, setupCount, termCount,
            deleted, uaf, nextInst, nLoads>>

trVars == <<input, output>>

vars == <<decVars, cfgVars, resolved, trVars, pmVars>>

Null == 0


(***************************************************************************)
(* JSON values as the completion payload holds them.                       *)
(***************************************************************************)
JNum(n)  == [t |-> "num", v |-> n]
JMissing == [t |-> "missing", v |-> 0]
JStr(str) == [t |-> "str", v |-> str]

\* QString::toULongLong: the value of a string of decimal digits, or -1 when
\* the string is not a number
ParseULongLong(str) ==
    CASE str = "4096" -> 4096
      [] str = "0" -> 0
      [] OTHER -> -1

\* QJsonValue::toInt(): the number when the value is one that fits an int, else 0
toInt(jv) == IF jv.t = "num" /\ jv.v <= 2147483647 THEN jv.v ELSE 0

\* QJsonValue::toVariant().toULongLong(&ok): the number, else 0 (ok is
\* ignored); every number of the model is below 2^64
toULongLong(jv) ==
    CASE jv.t = "num" -> jv.v
      [] jv.t = "str" -> IF ParseULongLong(jv.v) >= 0
                         THEN ParseULongLong(jv.v) ELSE 0
      [] OTHER -> 0

\* one entry of the "annotations" array
Annot(ty, s, e, o) == [obj |-> TRUE, type |-> ty, start |-> s, end |-> e, offset |-> o]
NotAnObject == [obj |-> FALSE, type |-> "none", start |-> JMissing,
                end |-> JMissing, offset |-> JMissing]

\* one entry of the "errors" array
ErrStr(s) == [isString |-> TRUE, s |-> s]
ErrOther  == [isString |-> FALSE, s |-> ""]

\* a completion payload: the document R2Task::getResultJson() returns
Payload(d, k, c, a, e) ==
    [doc |-> d, keys |-> k, code |-> c, annotations |-> a, errors |-> e]

\* the payloads a backend command completes with
Payloads ==
    << Payload("invalid", {}, <<>>, <<>>, <<>>),
       Payload("array", {}, <<>>, <<>>, <<>>),
       Payload("object", {}, <<>>, <<>>, <<>>),
       Payload("object", {"code", "annotations", "errors"}, <<"int main(){}">>,
               << Annot("offset", JNum(0), JNum(3), JNum(4096)) >>, <<>>),
       Payload("object", {"code", "annotations", "errors"}, <<>>,
               << Annot("text", JNum(0), JNum(3), JMissing), NotAnObject >>,
               << ErrStr("bad syntax"), ErrOther >>) >>

PayloadIds == 1 .. Len(Payloads)

\* the document of a task: an invalid one while the command has not completed
PayloadAt(i) == IF i = 0 THEN Payloads[1] ELSE Payloads[i]

\* QJsonDocument::object(): the object, or an empty object when the document
\* is not an object
object(p) ==
    IF p.doc = "object" THEN p ELSE Payload("object", {}, <<>>, <<>>, <<>>)

JsonIsEmptyNever(o) == FALSE

\* QJsonObject::isEmpty()
JsonIsEmpty(o) == o.keys = {}

\* QJsonObject::isEmpty() of an annotations entry's toObject()
LineIsEmpty(l) ==
    \/ ~l.obj
    \/ /\ l.type = "none"
       /\ l.start.t = "missing" /\ l.end.t = "missing" /\ l.offset.t = "missing"

\* Decompiler::makeWarning: a fresh code object holding the message
makeWarning(msg) ==
    [isNull |-> FALSE, warning |-> TRUE, code |-> <<msg>>, annotations |-> <<>>]

RECURSIVE AnnotationsAnyType(_)
AnnotationsAnyType(lines) ==
    IF lines = <<>> THEN <<>>
    ELSE LET l == Head(lines)
             rest == AnnotationsAnyType(Tail(lines))
         IN  IF LineIsEmpty(l) THEN rest
             ELSE << [start |-> toInt(l.start), end |-> toInt(l.end),
                      type |-> "offset", offset |-> toULongLong(l.offset)] >>
                  \o rest

\* the annotation loop: one RCodeMetaItem per non-empty entry of type "offset"
RECURSIVE Annotations(_)
Annotations(lines) ==
    IF lines = <<>> THEN <<>>
    ELSE LET l == Head(lines)
             rest == Annotations(Tail(lines))
         IN  IF LineIsEmpty(l) THEN rest
             ELSE IF l.type # "offset" THEN rest
             ELSE << [start |-> toInt(l.start), end |-> toInt(l.end),
                      type |-> "offset", offset |-> toULongLong(l.offset)] >>
                  \o rest

RECURSIVE ErrorTextEveryEntry(_)
ErrorTextEveryEntry(errs) ==
    IF errs = <<>> THEN <<>>
    ELSE <<Head(errs).s, "\n">> \o ErrorTextEveryEntry(Tail(errs))

\* the errors loop: each string entry followed by a newline
RECURSIVE ErrorText(_)
ErrorText(errs) ==
    IF errs = <<>> THEN <<>>
    ELSE LET e == Head(errs)
         IN  (IF e.isString THEN <<e.s, "\n">> ELSE <<>>) \o ErrorText(Tail(errs))

\* the success path: the RCodeMeta built from a non-empty object
Translate(o) ==
    [isNull |-> FALSE, warning |-> FALSE,
     code |-> o.code \o ErrorText(o.errors),
     annotations |-> Annotations(o.annotations)]

\* what the lambda emits for the object of a payload
Finished(o) ==
    IF JsonIsEmpty(o)
    THEN makeWarning("Failed to parse JSON from pdc")
    ELSE Translate(o)

\* no code object
NoCode == [isNull |-> TRUE, warning |-> FALSE, code |-> <<>>, annotations |-> <<>>]

\* the values a field of an annotations entry is given
StartValues == {JNum(0), JMissing}
EndValues == {JNum(3), JMissing}
OffsetValues == {JNum(4096), JMissing, JStr("4096"), JStr("zz")}

\* entries of an annotations array: offset entries with any of the fields
\* there or not, an entry of another type, an empty object, a non-object
Entries ==
    {Annot("offset", st, en, of) :
        st \in StartValues, en \in EndValues, of \in OffsetValues}
    \cup {Annot("text", JNum(0), JNum(3), JMissing),
          Annot("none", JMissing, JMissing, JMissing), NotAnObject}

RECURSIVE ListsUpTo(_, _)
ListsUpTo(S, n) ==
    IF n = 0 THEN {<<>>}
    ELSE LET shorter == ListsUpTo(S, n - 1)
         IN  shorter \cup {Append(q, x) : q \in shorter, x \in S}

\* non-empty payload objects
Objects ==
    {Payload("object", {"code", "annotations", "errors"}, c, a, e) :
        c \in {<<>>, <<"int main(){}">>},
        a \in ListsUpTo(Entries, MaxEntries),
        e \in ListsUpTo({ErrStr("bad syntax"), ErrOther}, MaxEntries)}

\* the lambda's translation of one payload, alone
TrInit == input = Payloads[1] /\ output = NoCode
TrInputs == input \in Objects \cup {Payloads[i] : i \in PayloadIds} /\ output = NoCode

TranslateStep ==
    /\ output.isNull
    /\ output' = Finished(object(input))
    /\ UNCHANGED <<input, decVars, cfgVars, resolved, pmVars>>

(***************************************************************************)
(* R2pdcCmdDecompiler                                                      *)
(***************************************************************************)
TaskIds == 1 .. MaxCalls
Addrs == {4096, 8192}

Frame(fn, pc, t, a) == [fn |-> fn, pc |-> pc, t |-> t, a |-> a]
Top == Head(stack)
AtTop(fn, pc) == stack # <<>> /\ Top.fn = fn /\ Top.pc = pc
Push(f) == <<f>> \o stack
Pop == Tail(stack)
Goto(pc) == <<[Top EXCEPT !.pc = pc]>> \o Tail(stack)

\* a caller of decompileAt runs: the event loop, or a consumer's handler
CallerRuns == IF stack = <<>> THEN TRUE ELSE Top.fn = "consumer"

TaskPendingNever == FALSE

\* `if (task) return;`
TaskPending == task # Null

DecStartFirst(pc) ==
    CASE pc = "new" -> "start"
      [] pc = "start" -> "connect"
      [] OTHER -> "ret"

\* statement order of decompileAt after the guard
DecNextPc(pc) ==
    CASE pc = "new" -> "connect"
      [] pc = "connect" -> "start"
      [] OTHER -> "ret"

LambdaNeverNull(pc) ==
    CASE pc = "read" -> "delete"
      [] pc = "delete" -> "emit"
      [] OTHER -> "ret"

LambdaEmitFirst(pc) ==
    CASE pc = "read" -> "emit"
      [] pc = "emit" -> "delete"
      [] pc = "delete" -> "null"
      [] OTHER -> "ret"

\* statement order of the completion lambda: read the result, delete the
\* task, null the member, emit finished, return
LambdaNextPc(pc) ==
    CASE pc = "read" -> "delete"
      [] pc = "delete" -> "null"
      [] pc = "null" -> "emit"
      [] OTHER -> "ret"

DecInit ==
    /\ task = Null
    /\ live = {}
    /\ connected = {}
    /\ started = {}
    /\ cmd = [t \in TaskIds |-> 0]
    /\ result = [t \in TaskIds |-> 0]
    /\ delivered = {}
    /\ stack = <<>>
    /\ json = 0
    /\ emitted = <<>>
    /\ nCalls = 0
    /\ nAccepted = 0
    /\ nextId = 1

\* decompileAt(addr) is called, from the event loop or from a consumer's
\* finished handler, and evaluates its guard
DecompileAt(addr) ==
    /\ nCalls < MaxCalls
    /\ CallerRuns
    /\ nCalls' = nCalls + 1
    /\ IF TaskPending
       THEN UNCHANGED <<stack, nAccepted>>
       ELSE /\ stack' = Push(Frame("decompileAt", "new", Null, addr))
            /\ nAccepted' = nAccepted + 1
    /\ UNCHANGED <<task, live, connected, started, cmd, result, delivered,
                   json, emitted, nextId>>
    /\ UNCHANGED <<cfgVars, resolved, trVars, pmVars>>

\* task = new R2Task("pdcj @ " + addr)
DecNew ==
    /\ AtTop("decompileAt", "new")
    /\ nextId \in TaskIds
    /\ task' = nextId
    /\ live' = live \cup {nextId}
    /\ cmd' = [cmd EXCEPT ![nextId] = Top.a]
    /\ nextId' = nextId + 1
    /\ stack' = Goto(DecNextPc("new"))
    /\ UNCHANGED <<connected, started, result, delivered, json, emitted,
                   nCalls, nAccepted>>
    /\ UNCHANGED <<cfgVars, resolved, trVars, pmVars>>

\* connect(task, &R2Task::finished, this, lambda)
DecConnect ==
    /\ AtTop("decompileAt", "connect")
    /\ connected' = connected \cup {task}
    /\ stack' = Goto(DecNextPc("connect"))
    /\ UNCHANGED <<task, live, started, cmd, result, delivered, json, emitted,
                   nCalls, nAccepted, nextId>>
    /\ UNCHANGED <<cfgVars, resolved, trVars, pmVars>>

\* task->startTask()
DecStart ==
    /\ AtTop("decompileAt", "start")
    /\ started' = started \cup {task}
    /\ stack' = Goto(DecNextPc("start"))
    /\ UNCHANGED <<task, live, connected, cmd, result, delivered, json,
                   emitted, nCalls, nAccepted, nextId>>
    /\ UNCHANGED <<cfgVars, resolved, trVars, pmVars>>

\* decompileAt returns to its caller
DecReturn ==
    /\ AtTop("decompileAt", "ret")
    /\ stack' = Pop
    /\ UNCHANGED <<task, live, connected, started, cmd, result, delivered,
                   json, emitted, nCalls, nAccepted, nextId>>
    /\ UNCHANGED <<cfgVars, resolved, trVars, pmVars>>

\* the backend command of a started task completes with payload p
BackendComplete(t, p) ==
    /\ t \in started /\ t \in live
    /\ result[t] = 0
    /\ result' = [result EXCEPT ![t] = p]
    /\ UNCHANGED <<task, live, connected, started, cmd, delivered, stack,
                   json, emitted, nCalls, nAccepted, nextId>>
    /\ UNCHANGED <<cfgVars, resolved, trVars, pmVars>>

\* the event loop emits a completed task's finished signal, once; the
\* connected lambda is entered
Deliver(t) ==
    /\ stack = <<>>
    /\ t \in live /\ result[t] # 0 /\ t \notin delivered
    /\ delivered' = delivered \cup {t}
    /\ stack' = IF t \in connected THEN Push(Frame("lambda", "read", t, 0))
                ELSE stack
    /\ UNCHANGED <<task, live, connected, started, cmd, result, json,
                   emitted, nCalls, nAccepted, nextId>>
    /\ UNCHANGED <<cfgVars, resolved, trVars, pmVars>>

\* QJsonObject json = task->getResultJson().object();
LambdaRead ==
    /\ AtTop("lambda", "read")
    /\ task # Null
    /\ json' = result[task]
    /\ stack' = Goto(LambdaNextPc("read"))
    /\ UNCHANGED <<task, live, connected, started, cmd, result, delivered,
                   emitted, nCalls, nAccepted, nextId>>
    /\ UNCHANGED <<cfgVars, resolved, trVars, pmVars>>

\* delete task;
LambdaDelete ==
    /\ AtTop("lambda", "delete")
    /\ live' = live \ {task}
    /\ stack' = Goto(LambdaNextPc("delete"))
    /\ UNCHANGED <<task, connected, started, cmd, result, delivered, json,
                   emitted, nCalls, nAccepted, nextId>>
    /\ UNCHANGED <<cfgVars, resolved, trVars, pmVars>>

\* task = nullptr;
LambdaNull ==
    /\ AtTop("lambda", "null")
    /\ task' = Null
    /\ stack' = Goto(LambdaNextPc("null"))
    /\ UNCHANGED <<live, connected, started, cmd, result, delivered, json,
                   emitted, nCalls, nAccepted, nextId>>
    /\ UNCHANGED <<cfgVars, resolved, trVars, pmVars>>

\* emit finished(makeWarning(...)) or emit finished(code): the consumer's
\* handler runs inside the emission
LambdaEmit ==
    /\ AtTop("lambda", "emit")
    /\ emitted' = Append(emitted, [t |-> Top.t,
                                   res |-> Finished(object(PayloadAt(json)))])
    /\ stack' = <<Frame("consumer", "run", Top.t, 0)>>
                    \o Goto(LambdaNextPc("emit"))
    /\ UNCHANGED <<task, live, connected, started, cmd, result, delivered,
                   json, nCalls, nAccepted, nextId>>
    /\ UNCHANGED <<cfgVars, resolved, trVars, pmVars>>

\* the consumer's finished handler returns into the lambda
ConsumerReturn ==
    /\ AtTop("consumer", "run")
    /\ stack' = Pop
    /\ UNCHANGED <<task, live, connected, started, cmd, result, delivered,
                   json, emitted, nCalls, nAccepted, nextId>>
    /\ UNCHANGED <<cfgVars, resolved, trVars, pmVars>>

\* the lambda returns to the event loop
LambdaReturn ==
    /\ AtTop("lambda", "ret")
    /\ stack' = Pop
    /\ UNCHANGED <<task, live, connected, started, cmd, result, delivered,
                   json, emitted, nCalls, nAccepted, nextId>>
    /\ UNCHANGED <<cfgVars, resolved, trVars, pmVars>>

DecNext ==
    \/ \E addr \in Addrs : DecompileAt(addr)
    \/ DecNew
    \/ DecConnect
    \/ DecStart
    \/ DecReturn
    \/ \E t \in TaskIds, p \in PayloadIds : BackendComplete(t, p)
    \/ \E t \in TaskIds : Deliver(t)
    \/ LambdaRead
    \/ LambdaDelete
    \/ LambdaNull
    \/ LambdaEmit
    \/ ConsumerReturn
    \/ LambdaReturn

\* the payloads of the runs in which progress is checked: an invalid
\* document and the object with code and one annotation
LivePayloads == {p \in PayloadIds : Payloads[p].doc = "invalid" \/ Payloads[p].code # <<>>}

\* the steps the program takes by itself: statements of decompileAt, of the
\* lambda and of the consumer's handler, and the event loop's delivery of a
\* signal; not the caller's calls, not the backend command's completion
ProgramStep ==
    \/ DecNew
    \/ DecConnect
    \/ DecStart
    \/ DecReturn
    \/ \E t \in TaskIds : Deliver(t)
    \/ LambdaRead
    \/ LambdaDelete
    \/ LambdaNull
    \/ LambdaEmit
    \/ ConsumerReturn
    \/ LambdaReturn



DecNextLive ==
    \/ \E addr \in Addrs : DecompileAt(addr)
    \/ \E t \in TaskIds, p \in LivePayloads : BackendComplete(t, p)
    \/ ProgramStep

(***************************************************************************)
(* Paths.  A path is a sequence of its segments; "." is a segment that     *)
(* QDir::absolutePath() removes.                                           *)
(***************************************************************************)
Home == <<"home">>
Usr  == <<"usr">>
Opt  == <<"opt">>

\* QDir::filePath(name), QDir::absoluteFilePath(name)
filePath(dir, name) == Append(dir, name)

\* QDir::absolutePath(): no redundant "." segment
RECURSIVE absolutePath(_)
absolutePath(d) ==
    IF d = <<>> THEN <<>>
    ELSE IF Head(d) = "." THEN absolutePath(Tail(d))
    ELSE <<Head(d)>> \o absolutePath(Tail(d))

\* QString::split(listSeparator, SkipEmptyParts) of IAITO_EXTRA_PLUGIN_DIRS
SkipEmptyParts(parts) == SelectSeq(parts, LAMBDA x : x # <<>>)

\* PluginManager::getPluginDirectories (a build without APPIMAGE)
getPluginDirectories ==
    [i \in 1 .. Len(stdLocs) |-> filePath(stdLocs[i], "plugins")]
        \o SkipEmptyParts(extraParts)

(***************************************************************************)
(* The file system, looked at lazily: a directory nobody has looked at is  *)
(* "?", and the first exists()/cd()/mkdir()/mkpath() fixes it.             *)
(***************************************************************************)
Locations == {Home, Usr}
ExtraCandidates == {Opt, <<"usr", "plugins">>, <<"opt", ".">>, <<>>}
RootDirs == {filePath(l, "plugins") : l \in Locations}
                \cup {absolutePath(x) : x \in ExtraCandidates \ {<<>>}}
SubDirs == {filePath(r, "native") : r \in RootDirs}
               \cup {filePath(r, "python") : r \in RootDirs}
FsDirs == RootDirs \cup SubDirs

FileNames == <<"a", "b", "c", "d", "e", "f">>
NativeFiles == {filePath(filePath(r, "native"), FileNames[i]) :
                    r \in RootDirs, i \in 1 .. Len(FileNames)}

PyFiles == {filePath(filePath(r, "python"), FileNames[i]) :
                r \in RootDirs, i \in 1 .. Len(FileNames)}

\* what a file holds is fixed the first time it is read: a kind of module
\* is possible for file f
Holds(kind) ==
    CASE kind \in {"plugin", "ok"} -> "plugin"
      [] kind = "pycache" -> "skip"
      [] OTHER -> "other"

Possible(f, kind) == known[f] \in {"?", Holds(kind)}

Read(f, kind) == [known EXCEPT ![f] = Holds(kind)]

\* QDir::exists(), QDir::cd(): d is there or not; `there` decides a "?"
Look(f, d, there) ==
    IF f[d] = "?" THEN [f EXCEPT ![d] = IF there THEN "yes" ELSE "no"] ELSE f

\* QDir::mkdir(), QDir::mkpath(): afterwards d is there unless creating it
\* failed; `made` decides a "?"
Mk(f, d, made) == Look(f, d, made)

\* entries not yet given to a directory
Listed == {d \in SubDirs : nfiles[d] >= 0}
RECURSIVE SumFiles(_)
SumFiles(ds) ==
    IF ds = {} THEN 0
    ELSE LET d == CHOOSE x \in ds : TRUE IN nfiles[d] + SumFiles(ds \ {d})
Remaining == MaxModules - SumFiles(Listed)

\* QDir::entryList: the listing of d is fixed the first time it is read
List(d, n) == IF nfiles[d] = -1 THEN [nfiles EXCEPT ![d] = n] ELSE nfiles

(***************************************************************************)
(* PluginManager                                                           *)
(***************************************************************************)
NativeKinds == {"broken", "foreign", "plugin"}
PyKinds == {"import_fails", "no_factory", "not_callable", "factory_raises",
            "not_convertible", "null_plugin", "ok"}
PyForms == {"pycache", "py", "verbatim"}

\* the name of the idx-th entry of a script directory
PyFileName(i, form) ==
    CASE form = "pycache" -> <<"__pycache__">>
      [] form = "py" -> <<FileNames[i], ".py">>
      [] OTHER -> <<FileNames[i]>>

\* fileName.endsWith(".py") ? fileName.chopped(3) : fileName
ModuleName(fileName) ==
    IF fileName[Len(fileName)] = ".py"
    THEN SubSeq(fileName, 1, Len(fileName) - 1)
    ELSE fileName

Entry(inst, src, lang) == [inst |-> inst, src |-> src, lang |-> lang]
Attempt(src, kind, inst) == [src |-> src, kind |-> kind, inst |-> inst]
NoAttempt == Attempt(<<>>, "none", 0)
\* an attempt as the log keeps it: the module and the instance it gave (0: none)
Logged(src, inst) == [src |-> src, inst |-> inst]
Call(op, enable, end) == [op |-> op, enable |-> enable, end |-> end]
NoCall == Call("none", FALSE, "none")

\* iaitoPlugin->setupPlugin() on instance i
SetupPlugin(sc, i) ==
    IF i > Len(sc) THEN Append(sc, 1) ELSE [sc EXCEPT ![i] = @ + 1]

IsIaitoPluginOrAnyObject(kind) == kind \in {"plugin", "foreign"}

\* pluginLoader.instance() is not null and qobject_cast<IaitoPlugin *> of it
\* is not null
IsIaitoPlugin(kind) == kind = "plugin"

ThreadHolderKept(g) == g

\* PythonManager::ThreadHolder threadHolder; and the end of its scope
ThreadHolderBegin(g) == g + 1
ThreadHolderEnd(g) == g - 1

\* loadPythonPlugin returns a plugin, not nullptr
IsPythonPlugin(kind) == kind = "ok"

AfterFailureBreak(i, n) == n + 1

\* `continue`: the loop goes on with the next entry; n is the last one
AfterFailure(i, n) == i + 1

DisabledNever(enablePlugins) == FALSE

\* `if (!enablePlugins) return;`
Disabled(enablePlugins) == ~enablePlugins

MayCreateAlways(writable) == TRUE

\* `if (writable)` before mkdir("native") and mkdir("python")
MayCreate(writable) == writable

PluginsEmptyAlways == TRUE

\* plugins.empty()
PluginsEmpty == plugins = <<>>

\* PluginManager::getUserPluginsDirectory; `made` is whether mkpath can
\* create the directory when it is not there
getUserPluginsDirectory(made) ==
    IF writableLoc = <<>>
    THEN [dir |-> <<>>, fs |-> fs, mkdirs |-> mkdirs]
    ELSE LET d == absolutePath(filePath(writableLoc, "plugins"))
             f == Mk(fs, d, made)
         IN  [dir |-> IF f[d] = "yes" THEN d ELSE <<>>,
              fs |-> f, mkdirs |-> mkdirs \cup {d}]

\* loadPluginsFromDir(dir) without its second argument: the default of
\* `writable` in the declaration
DefaultWritable == FALSE

\* the roots loadPlugins scans: the user root, then every other directory
\* of getPluginDirectories()
ScanQueue(userPluginDir) ==
    (IF userPluginDir # <<>>
     THEN << [dir |-> userPluginDir, writable |-> TRUE] >> ELSE <<>>)
    \o LET others == SelectSeq(getPluginDirectories,
                               LAMBDA d : absolutePath(d) # userPluginDir)
       IN  [i \in 1 .. Len(others) |-> [dir |-> others[i], writable |-> DefaultWritable]]

\* PluginTerminator on the entries in turn: terminate(), then delete
RECURSIVE Teardown(_, _)
Teardown(ps, acc) ==
    IF ps = <<>> THEN acc
    ELSE LET i == Head(ps).inst
             t == [acc EXCEPT !.uaf = @ \/ i \in acc.deleted,
                              !.term = [@ EXCEPT ![i] = @ + 1]]
             d == [t EXCEPT !.uaf = @ \/ i \in t.deleted,
                            !.deleted = @ \cup {i}]
         IN  Teardown(Tail(ps), d)

PmInit ==
    /\ fs = [d \in FsDirs |-> "?"]
    /\ mkdirs = {}
    /\ nfiles = [d \in SubDirs |-> -1]
    /\ cache = [f \in NativeFiles |-> 0]
    /\ known = [f \in NativeFiles \cup PyFiles |-> "?"]
    /\ plugins = <<>>
    /\ pmpc = "idle"
    /\ queue = <<>>
    /\ idx = 1
    /\ gil = 0
    /\ pyCur = 0
    /\ last = NoAttempt
    /\ log = <<>>
    /\ base = <<>>
    /\ scanned = <<>>
    /\ lastCall = NoCall
    /\ setupCount = <<>>
    /\ termCount = <<>>
    /\ deleted = {}
    /\ uaf = FALSE
    /\ nextInst = 1
    /\ nLoads = 0

CurRoot == absolutePath(Head(queue).dir)
CurNative == filePath(CurRoot, "native")
CurPython == filePath(CurRoot, "python")

\* loadPlugins(enablePlugins): the assert, the early return, and the roots
\* to scan
LoadPlugins(enablePlugins) ==
    /\ pmpc = "idle"
    /\ nLoads < MaxLoads
    /\ nLoads' = nLoads + 1
    /\ IF assertsEnabled /\ ~PluginsEmpty
       THEN /\ pmpc' = "aborted"
            /\ lastCall' = Call("load", enablePlugins, "assert")
            /\ UNCHANGED <<fs, mkdirs, queue, log, base, scanned>>
       ELSE IF Disabled(enablePlugins)
       THEN /\ lastCall' = Call("load", enablePlugins, "return")
            /\ UNCHANGED <<fs, mkdirs, queue, log, base, scanned, pmpc>>
       ELSE \E made \in BOOLEAN :
               LET u == getUserPluginsDirectory(made)
               IN  /\ fs' = u.fs
                   /\ mkdirs' = u.mkdirs
                   /\ queue' = ScanQueue(u.dir)
                   /\ pmpc' = "scan"
                   /\ log' = <<>>
                   /\ base' = plugins
                   /\ scanned' = <<>>
                   /\ lastCall' = Call("load", enablePlugins, "scanning")
    /\ UNCHANGED <<nfiles, cache, plugins, idx, gil, pyCur, setupCount,
                   termCount, deleted, uaf, nextInst>>
    /\ UNCHANGED <<decVars, cfgVars, resolved, trVars>>
    /\ last' = NoAttempt
    /\ UNCHANGED known

\* the first loadPlugins call of the process
FirstLoadPlugins(enablePlugins) ==
    /\ nLoads = 0
    /\ LoadPlugins(enablePlugins)

\* loadPluginsFromDir up to the native loop: exists(), mkdir("native"),
\* cd("native"), entryList
EnterRoot ==
    /\ pmpc = "scan" /\ queue # <<>>
    /\ scanned' = Append(scanned, CurRoot)
    /\ \E there, sub \in BOOLEAN, n \in 0 .. Remaining :
          LET f1 == Look(fs, CurRoot, there)
              f2 == IF MayCreate(Head(queue).writable)
                    THEN Mk(f1, CurNative, sub) ELSE Look(f1, CurNative, sub)
          IN  IF f1[CurRoot] # "yes"
              THEN /\ fs' = f1
                   /\ queue' = Tail(queue)
                   /\ UNCHANGED <<mkdirs, nfiles, pmpc>>
              ELSE /\ fs' = f2
                   /\ mkdirs' = IF MayCreate(Head(queue).writable)
                                THEN mkdirs \cup {CurNative} ELSE mkdirs
                   /\ IF f2[CurNative] = "yes"
                      THEN /\ nfiles' = List(CurNative, n)
                           /\ pmpc' = "native"
                      ELSE /\ pmpc' = "pyenter"
                           /\ UNCHANGED nfiles
                   /\ UNCHANGED queue
    /\ idx' = 1
    /\ UNCHANGED <<cache, plugins, gil, pyCur, log, base, setupCount, termCount, deleted, uaf, nextInst, nLoads>>
    /\ UNCHANGED <<decVars, cfgVars, resolved, trVars>>
    /\ last' = NoAttempt
    /\ lastCall' = NoCall
    /\ UNCHANGED known

\* one turn of the loop of loadNativePlugins
NativeLoad ==
    /\ pmpc = "native" /\ idx <= nfiles[CurNative]
    /\ LET file == filePath(CurNative, FileNames[idx])
       IN  \E kind \in NativeKinds :
              /\ cache[file] # 0 => kind = "plugin"
              /\ Possible(file, kind)
              /\ known' = Read(file, kind)
              /\ LET inst == IF ~IsIaitoPlugin(kind) THEN 0
                             ELSE IF cache[file] # 0 THEN cache[file]
                             ELSE nextInst
                 IN  /\ last' = Attempt(file, kind, inst)
                     /\ log' = Append(log, Logged(file, inst))
                     /\ IF IsIaitoPlugin(kind)
                        THEN /\ cache' = [cache EXCEPT ![file] = inst]
                             /\ nextInst' = IF inst = nextInst
                                            THEN nextInst + 1 ELSE nextInst
                             /\ setupCount' = SetupPlugin(setupCount, inst)
                             /\ termCount' = IF inst = nextInst
                                             THEN Append(termCount, 0)
                                             ELSE termCount
                             /\ plugins' = Append(plugins,
                                                  Entry(inst, file, "native"))
                             /\ idx' = idx + 1
                        ELSE /\ idx' = AfterFailure(idx, nfiles[CurNative])
                             /\ UNCHANGED <<cache, nextInst, setupCount,
                                            termCount, plugins>>
    /\ lastCall' = NoCall
    /\ UNCHANGED <<fs, mkdirs, nfiles, pmpc, queue, gil, pyCur, base, scanned,
                   deleted, uaf, nLoads>>
    /\ UNCHANGED <<decVars, cfgVars, resolved, trVars>>

\* loadPluginsFromDir after the native part.  With the Python bindings:
\* mkdir("python"), cd("python") and the entry of loadPythonPlugins;
\* without them the function returns
AfterNative ==
    /\ IF pmpc = "native" THEN idx > nfiles[CurNative] ELSE pmpc = "pyenter"
    /\ IF ~pythonBindings
       THEN /\ pmpc' = "scan"
            /\ queue' = Tail(queue)
            /\ UNCHANGED <<fs, mkdirs, nfiles>>
       ELSE \E sub \in BOOLEAN, n \in 0 .. Remaining :
               LET f == IF MayCreate(Head(queue).writable)
                        THEN Mk(fs, CurPython, sub)
                        ELSE Look(fs, CurPython, sub)
               IN  /\ fs' = f
                   /\ mkdirs' = IF MayCreate(Head(queue).writable)
                                THEN mkdirs \cup {CurPython} ELSE mkdirs
                   /\ IF f[CurPython] = "yes"
                      THEN /\ nfiles' = List(CurPython, n)
                           /\ pmpc' = "python"
                           /\ UNCHANGED queue
                      ELSE /\ pmpc' = "scan"
                           /\ queue' = Tail(queue)
                           /\ UNCHANGED nfiles
    /\ idx' = 1
    /\ UNCHANGED <<cache, plugins, gil, pyCur, log, base, scanned,
                   setupCount, termCount, deleted, uaf, nextInst,
                   nLoads>>
    /\ UNCHANGED <<decVars, cfgVars, resolved, trVars>>
    /\ last' = NoAttempt
    /\ lastCall' = NoCall
    /\ UNCHANGED known

\* one turn of the loop of loadPythonPlugins up to the call of
\* loadPythonPlugin, whose first statement constructs a ThreadHolder
PyEnter ==
    /\ pmpc = "python" /\ idx <= nfiles[CurPython]
    /\ \E form \in PyForms :
          LET fileName == PyFileName(idx, form)
              file == filePath(CurPython, FileNames[idx])
              src == CurPython \o ModuleName(fileName)
          IN  /\ form = "pycache" => idx = 1
              /\ IF fileName = <<"__pycache__">>
                 THEN /\ Possible(file, "pycache")
                      /\ known' = Read(file, "pycache")
                      /\ last' = Attempt(CurPython \o fileName, "pycache", 0)
                      /\ idx' = idx + 1
                      /\ UNCHANGED <<pmpc, gil>>
                 ELSE /\ known[file] # Holds("pycache")
                      /\ last' = Attempt(src, "loading", 0)
                      /\ pmpc' = "pyimport"
                      /\ gil' = ThreadHolderBegin(gil)
                      /\ UNCHANGED <<known, idx>>
    /\ lastCall' = NoCall
    /\ UNCHANGED <<fs, mkdirs, nfiles, cache, plugins, queue, pyCur, log, base,
                   scanned, setupCount, termCount, deleted, uaf, nextInst,
                   nLoads>>
    /\ UNCHANGED <<decVars, cfgVars, resolved, trVars>>

\* loadPythonPlugin from the import to its return, where its ThreadHolder
\* is destroyed, and the test of its result in loadPythonPlugins
PyLoad ==
    /\ pmpc = "pyimport"
    /\ \E kind \in PyKinds :
          LET file == filePath(CurPython, FileNames[idx])
              src == last.src
          IN  /\ Possible(file, kind)
              /\ known' = Read(file, kind)
              /\ gil' = ThreadHolderEnd(gil)
              /\ IF ~IsPythonPlugin(kind)
                 THEN /\ last' = Attempt(src, kind, 0)
                      /\ log' = Append(log, Logged(src, 0))
                      /\ idx' = AfterFailure(idx, nfiles[CurPython])
                      /\ pmpc' = "python"
                      /\ UNCHANGED <<pyCur, nextInst, termCount>>
                 ELSE /\ last' = Attempt(src, kind, nextInst)
                      /\ pyCur' = nextInst
                      /\ nextInst' = nextInst + 1
                      /\ termCount' = Append(termCount, 0)
                      /\ pmpc' = "pysetup"
                      /\ UNCHANGED <<idx, log>>
    /\ lastCall' = NoCall
    /\ UNCHANGED <<fs, mkdirs, nfiles, cache, plugins, queue, base,
                   scanned, setupCount, deleted, uaf, nLoads>>
    /\ UNCHANGED <<decVars, cfgVars, resolved, trVars>>

\* iaitoPlugin->setupPlugin(); plugins.push_back(...) of loadPythonPlugins
PySetup ==
    /\ pmpc = "pysetup"
    /\ setupCount' = SetupPlugin(setupCount, pyCur)
    /\ plugins' = Append(plugins, Entry(pyCur, last.src, "python"))
    /\ log' = Append(log, Logged(last.src, pyCur))
    /\ pyCur' = 0
    /\ last' = NoAttempt
    /\ idx' = idx + 1
    /\ pmpc' = "python"
    /\ UNCHANGED <<fs, mkdirs, nfiles, cache, queue, gil, base, scanned,
                   termCount, deleted, uaf, nextInst, nLoads>>
    /\ UNCHANGED <<decVars, cfgVars, resolved, trVars>>
    /\ lastCall' = NoCall
    /\ UNCHANGED known

\* the end of loadPythonPlugins (a ThreadHolder made and dropped) and of
\* loadPluginsFromDir
PyDone ==
    /\ pmpc = "python" /\ idx > nfiles[CurPython]
    /\ pmpc' = "scan"
    /\ gil' = ThreadHolderEnd(ThreadHolderBegin(gil))
    /\ queue' = Tail(queue)
    /\ UNCHANGED <<fs, mkdirs, nfiles, cache, plugins, idx, pyCur, log, base, scanned, setupCount, termCount,
                   deleted, uaf, nextInst, nLoads>>
    /\ UNCHANGED <<decVars, cfgVars, resolved, trVars>>
    /\ last' = NoAttempt
    /\ lastCall' = NoCall
    /\ UNCHANGED known

\* loadPlugins returns
ScanDone ==
    /\ pmpc = "scan" /\ queue = <<>>
    /\ pmpc' = "idle"
    /\ lastCall' = Call("load", TRUE, "return")
    /\ UNCHANGED <<fs, mkdirs, nfiles, cache, plugins, queue, idx, gil, pyCur,
                   log, base, scanned, setupCount, termCount, deleted,
                   uaf, nextInst, nLoads>>
    /\ UNCHANGED <<decVars, cfgVars, resolved, trVars>>
    /\ last' = NoAttempt
    /\ UNCHANGED known

\* destroyPlugins(): plugins.clear() runs the PluginTerminator of each
\* entry; using a deleted instance is undefined, and the process goes on or
\* crashes
DestroyPlugins ==
    /\ pmpc = "idle"
    /\ LET r == Teardown(plugins, [term |-> termCount, deleted |-> deleted,
                                   uaf |-> uaf])
       IN  /\ termCount' = r.term
           /\ deleted' = r.deleted
           /\ uaf' = r.uaf
           /\ cache' = [f \in NativeFiles |->
                           IF cache[f] \in r.deleted THEN 0 ELSE cache[f]]
           /\ pmpc' \in IF r.uaf /\ ~uaf THEN {"idle", "crashed"} ELSE {"idle"}
    /\ plugins' = <<>>
    /\ lastCall' = Call("destroy", FALSE, "return")
    /\ UNCHANGED <<fs, mkdirs, nfiles, queue, idx, gil, pyCur, log, base, scanned, setupCount, nextInst, nLoads>>
    /\ UNCHANGED <<decVars, cfgVars, resolved, trVars>>
    /\ last' = NoAttempt
    /\ UNCHANGED known

\* getPluginDirectories() is called
Resolve ==
    /\ resolved = <<"?">>
    /\ resolved' = getPluginDirectories
    /\ UNCHANGED <<decVars, cfgVars, trVars, pmVars>>

(***************************************************************************)
(* Specifications                                                          *)
(***************************************************************************)
RECURSIVE SeqsUpTo(_, _)
SeqsUpTo(S, n) ==
    IF n = 0 THEN {<<>>}
    ELSE LET shorter == SeqsUpTo(S, n - 1)
         IN  shorter \cup {Append(q, x) : q \in shorter, x \in S}

\* a build without the Python bindings, with or without assert(), with a
\* user location, one standard location and Opt in the list of extra
\* directories, possibly more than once
CfgInit ==
    /\ assertsEnabled \in BOOLEAN
    /\ pythonBindings = FALSE
    /\ writableLoc = Home
    /\ stdLocs = <<Home>>
    /\ extraParts \in SeqsUpTo({Opt}, MaxExtra)
    /\ resolved = <<"?">>

\* one build, for the decompiler alone
PlainCfg ==
    /\ assertsEnabled = TRUE
    /\ pythonBindings = TRUE
    /\ writableLoc = Home
    /\ stdLocs = <<Home>>
    /\ extraParts = <<>>
    /\ resolved = <<"?">>

\* the same with the Python bindings
ScriptedCfg ==
    /\ assertsEnabled = TRUE
    /\ pythonBindings = TRUE
    /\ writableLoc = Home
    /\ stdLocs = <<Home>>
    /\ extraParts \in SeqsUpTo({Opt}, MaxExtra)
    /\ resolved = <<"?">>

\* any locations and any list of extra directories; the standard
\* locations start with the writable one when there is one
ResolverInit ==
    /\ assertsEnabled = TRUE
    /\ pythonBindings = TRUE
    /\ stdLocs \in {q \in SeqsUpTo(Locations, Cardinality(Locations)) :
                       \A i, j \in 1 .. Len(q) : i # j => q[i] # q[j]}
    /\ writableLoc \in {<<>>} \cup {stdLocs[i] : i \in {1} \cap DOMAIN stdLocs}
    /\ extraParts \in SeqsUpTo(ExtraCandidates, MaxExtra)
    /\ resolved = <<"?">>

Init == DecInit /\ CfgInit /\ PmInit /\ TrInit

\* the registry of a build without the Python bindings, loaded and
\* destroyed in any order
Next ==
    \/ \E enablePlugins \in BOOLEAN : LoadPlugins(enablePlugins)
    \/ EnterRoot
    \/ NativeLoad
    \/ AfterNative
    \/ ScanDone
    \/ DestroyPlugins

Spec == Init /\ [][Next]_vars

\* the registry of a build with the Python bindings in a process that calls
\* loadPlugins once, as the application does at startup
NextScripted ==
    \/ \E enablePlugins \in BOOLEAN : FirstLoadPlugins(enablePlugins)
    \/ EnterRoot
    \/ NativeLoad
    \/ AfterNative
    \/ PyEnter
    \/ PyLoad
    \/ PySetup
    \/ PyDone
    \/ ScanDone
    \/ DestroyPlugins

InitScripted == DecInit /\ ScriptedCfg /\ PmInit /\ TrInit

SpecScripted == InitScripted /\ [][NextScripted]_vars

InitDecompiler == DecInit /\ PlainCfg /\ PmInit /\ TrInit

SpecDecompiler == InitDecompiler /\ [][DecNext]_vars

\* the same where a running statement finishes and the event loop delivers
\* a pending signal
SpecDecompilerLive ==
    InitDecompiler /\ [][DecNextLive]_vars /\ WF_vars(ProgramStep)

InitTranslate == DecInit /\ PlainCfg /\ PmInit /\ TrInputs

SpecTranslate == InitTranslate /\ [][TranslateStep]_vars

InitResolver == DecInit /\ ResolverInit /\ PmInit /\ TrInit

SpecResolver == InitResolver /\ [][Resolve]_vars

(***************************************************************************)
(* Claims about R2pdcCmdDecompiler (checked under SpecDecompiler)          *)
(***************************************************************************)
EmitsOf(t) == Cardinality({i \in 1 .. Len(emitted) : emitted[i].t = t})
LambdaRunning(t) ==
    \E i \in 1 .. Len(stack) : stack[i].fn = "lambda" /\ stack[i].t = t

\* C1: at most one R2Task is alive at a time, and a decompileAt call made
\* while a task is pending creates no task, connects and starts nothing and
\* changes no state of the instance: the request is dropped, not queued.
C1_SingleFlight ==
    /\ [](Cardinality(live) <= 1 /\ live \subseteq {task})
    /\ [][(nCalls' # nCalls /\ task # Null) =>
            UNCHANGED <<task, live, connected, started, cmd, result,
                        delivered, stack, json, emitted, nAccepted, nextId>>]_vars

\* a call was dropped while a started task was pending
C1_Witness ==
    /\ nCalls = nAccepted + 1
    /\ task # Null /\ task \in started /\ live = {task}
    /\ stack = <<>>

\* C2: a task whose completion has been handled has emitted finished exactly
\* once, no task emits twice, emissions never outnumber accepted calls, and
\* each emission is non-null: a warning for an invalid, non-object or empty
\* payload, the translated code object for a non-empty object.
C2_ExactlyOneFinished ==
    /\ Len(emitted) <= nAccepted
    /\ \A t \in TaskIds :
          /\ EmitsOf(t) <= 1
          /\ (t \in delivered /\ ~LambdaRunning(t)) => EmitsOf(t) = 1
          /\ EmitsOf(t) = 1 => t \in delivered
    /\ \A i \in 1 .. Len(emitted) :
          LET e == emitted[i]
              p == PayloadAt(result[e.t])
          IN  /\ ~e.res.isNull
              /\ (p.doc # "object" \/ p.keys = {}) =>
                     (e.res.warning /\ e.res.annotations = <<>>)
              /\ (p.doc = "object" /\ p.keys # {}) =>
                     (~e.res.warning /\ e.res = Translate(p))

\* two completions were handled, one with a warning and one with code
C2_Witness ==
    /\ stack = <<>>
    /\ Len(emitted) = 2
    /\ \E i, j \in 1 .. 2 : emitted[i].res.warning /\ ~emitted[j].res.warning

\* C3: when finished is emitted the task object is deleted and the member is
\* null; a decompileAt call the consumer makes from its handler is accepted
\* and pushes a new invocation; and the lambda's return after the emission
\* leaves the new task as the handler's call made it.
C3_IdleBeforeEmit ==
    /\ [][Len(emitted') > Len(emitted) =>
            (task = Null /\ Top.t \notin live /\ task' = Null)]_vars
    /\ [][(stack # <<>> /\ Top.fn = "consumer" /\ task = Null
           /\ nCalls' # nCalls) =>
            (nAccepted' = nAccepted + 1 /\ stack'[1].fn = "decompileAt")]_vars
    /\ [][(stack # <<>> /\ Top.fn = "lambda" /\ Len(stack') < Len(stack)) =>
            UNCHANGED <<task, live, connected, started, cmd, result>>]_vars

\* inside the handler of a finished task, the consumer's call has created
\* and started a new task
C3_Witness ==
    \E i \in 2 .. Len(stack) :
        /\ stack[i].fn = "lambda"
        /\ stack[i - 1].fn = "consumer"
        /\ task \notin {Null, stack[i].t}
        /\ task \in live /\ task \in started

\* C14: a task's completion is delivered only after the task was started
\* and while the task object exists; a task object is destroyed only after
\* its completion was delivered; finished events come in the order of the
\* tasks; and a task is created only in a state where the instance is Idle
\* and every earlier task's finished was emitted, which is the Idle state
\* between two finished events.
C14_SubmitDeliverDestroy ==
    /\ [](delivered \subseteq started)
    /\ [](\A t \in TaskIds : (t < nextId /\ t \notin live) => t \in delivered)
    /\ [](\A i, j \in 1 .. Len(emitted) :
             i < j => emitted[i].t < emitted[j].t)
    /\ [][\A t \in delivered' \ delivered : t \in started /\ t \in live']_vars
    /\ [][\A t \in live \ live' : t \in delivered]_vars
    /\ [][nextId' # nextId =>
            (task = Null /\ \A t \in 1 .. nextId - 1 : EmitsOf(t) = 1)]_vars

\* two tasks were started, delivered and destroyed, and their finished
\* events came in that order
C14_Witness ==
    /\ task = Null /\ live = {}
    /\ delivered = {1, 2} /\ started = {1, 2}
    /\ Len(emitted) = 2 /\ emitted[1].t = 1 /\ emitted[2].t = 2

\* C16: the member leaves a task only by becoming null in the lambda that
\* handles that task's delivered completion; while the task's command has
\* not completed the member keeps the task and every decompileAt call is
\* dropped; finished is emitted for a task in a state where the instance is
\* Idle and the task destroyed; and once the command of a task has
\* completed, finished is emitted for it.
C16_PendingUntilCompletion ==
    /\ [][(task # Null /\ task' # task) =>
            /\ task' = Null /\ task \in delivered /\ result[task] # 0
            /\ Top.fn = "lambda" /\ Top.t = task]_vars
    /\ [][(task # Null /\ result[task] = 0) => task' = task]_vars
    /\ [][(task # Null /\ result[task] = 0 /\ nCalls' # nCalls) =>
            (nAccepted' = nAccepted /\ stack' = stack /\ live' = live)]_vars
    /\ [][\A t \in TaskIds :
            (EmitsOf(t) = 0 /\ EmitsOf(t)' = 1) =>
               (task = Null /\ t \notin live /\ result[t] # 0)]_vars
    /\ \A t \in TaskIds :
          (result[t] # 0) ~> (EmitsOf(t) = 1 /\ t \notin live /\ task # t)

\* two calls were dropped while the command of the pending task had not
\* completed
C16_Witness ==
    /\ task # Null /\ task \in started /\ result[task] = 0
    /\ nCalls >= nAccepted + 2
    /\ stack = <<>>

\* C20: the lambda is connected to the task the member points to, before
\* that task is started; a task is started only when it is the member's
\* task and connected; a command completes only for a connected task; and
\* every delivery of a completion enters the lambda, so a delivered task is
\* being handled or has had its finished emitted.
C20_ConnectedBeforeStarted ==
    /\ [](started \subseteq connected /\ connected \subseteq 1 .. nextId - 1)
    /\ [](\A t \in TaskIds : result[t] # 0 => t \in connected)
    /\ [](\A t \in delivered : LambdaRunning(t) \/ EmitsOf(t) = 1)
    /\ [][connected' # connected =>
            /\ task # Null /\ task \in live /\ task \notin started
            /\ connected' = connected \cup {task}]_vars
    /\ [][started' # started =>
            /\ task # Null /\ task \in connected
            /\ started' = started \cup {task}]_vars
    /\ [][\A t \in delivered' \ delivered :
            /\ t \in connected
            /\ stack' # <<>> /\ stack'[1].fn = "lambda" /\ stack'[1].t = t]_vars

\* the command completed right after startTask, before decompileAt returned
C20_Witness ==
    /\ AtTop("decompileAt", "ret")
    /\ task # Null /\ task \in started /\ task \in connected
    /\ result[task] # 0 /\ task \notin delivered

(***************************************************************************)
(* Claims about the translation of a payload (checked under SpecTranslate) *)
(***************************************************************************)
Translated == ~output.isNull /\ ~output.warning
Parseable(jv) ==
    \/ jv.t = "num"
    \/ jv.t = "str" /\ ParseULongLong(jv.v) >= 0
IsOffsetEntry(l) == l.obj /\ l.type = "offset"
Complete(l) ==
    /\ IsOffsetEntry(l)
    /\ l.start.t = "num" /\ l.end.t = "num" /\ Parseable(l.offset)
OffsetEntries == SelectSeq(input.annotations, IsOffsetEntry)
StringErrors == SelectSeq(input.errors, LAMBDA e : e.isString)

\* C11: the result of a translation holds one annotation for each offset
\* entry that has a start, an end and an offset that parses as an unsigned
\* 64-bit number, and none for an offset entry that lacks one of them.
C11_IncompleteSkipped ==
    Translated =>
       Len(output.annotations) = Len(SelectSeq(input.annotations, Complete))

\* C12: the annotations of the result are the entries of type "offset" of
\* the payload, in the payload's order, each with the start, end and offset
\* the entry gives; entries of another type, empty objects and non-objects
\* give none; the payload with code "int main(){}" and the one offset entry
\* 0, 3, 4096 gives that text and the one annotation [0,3) at 4096.
C12_OffsetEntriesInOrder ==
    Translated =>
       /\ Len(output.annotations) = Len(OffsetEntries)
       /\ \A i \in 1 .. Len(OffsetEntries) :
             LET l == OffsetEntries[i]
                 a == output.annotations[i]
             IN  /\ a.type = "offset"
                 /\ l.start.t = "num" => a.start = l.start.v
                 /\ l.end.t = "num" => a.end = l.end.v
                 /\ l.offset.t = "num" => a.offset = l.offset.v
                 /\ (l.offset.t = "str" /\ Parseable(l.offset)) =>
                       a.offset = ParseULongLong(l.offset.v)
       /\ input = Payloads[4] =>
             /\ output.code = <<"int main(){}">>
             /\ output.annotations =
                   << [start |-> 0, end |-> 3, type |-> "offset",
                       offset |-> 4096] >>

\* a payload with an entry of another type before an offset entry was
\* translated to one annotation
C12_Witness ==
    /\ Translated
    /\ Len(input.annotations) = 2
    /\ input.annotations[1].type = "text"
    /\ input.annotations[2] = Annot("offset", JNum(0), JNum(3), JNum(4096))
    /\ Len(output.annotations) = 1

\* C13: the source text of the result is the code of the payload followed
\* by each string entry of errors, in order, each followed by a newline;
\* entries that are not strings add nothing; errors ["bad syntax"] with no
\* code gives a result that is no warning and ends with "bad syntax\n".
C13_CodeThenErrors ==
    Translated =>
       /\ Len(output.code) = Len(input.code) + 2 * Len(StringErrors)
       /\ SubSeq(output.code, 1, Len(input.code)) = input.code
       /\ \A i \in 1 .. Len(StringErrors) :
             /\ output.code[Len(input.code) + 2 * i - 1] = StringErrors[i].s
             /\ output.code[Len(input.code) + 2 * i] = "\n"
       /\ (input.code = <<>> /\ StringErrors = <<ErrStr("bad syntax")>>) =>
             SubSeq(output.code, Len(output.code) - 1, Len(output.code))
                = <<"bad syntax", "\n">>

\* a payload without code whose errors are a non-string and "bad syntax"
\* was translated
C13_Witness ==
    /\ Translated
    /\ input.code = <<>>
    /\ input.errors = <<ErrOther, ErrStr("bad syntax")>>
    /\ output.code = <<"bad syntax", "\n">>

(***************************************************************************)
(* Claims about PluginManager                                              *)
(***************************************************************************)
LoadCalled == nLoads' = nLoads + 1
FailKinds == (NativeKinds \ {"plugin"}) \cup (PyKinds \ {"ok"})
InScan ==
    pmpc \in {"scan", "native", "pyenter", "python", "pyimport", "pysetup"}
JustLoaded == pmpc = "idle" /\ lastCall = Call("load", TRUE, "return")
Oks(l) == SelectSeq(l, LAMBDA a : a.inst # 0)
Proj(ps) == [i \in 1 .. Len(ps) |-> Logged(ps[i].src, ps[i].inst)]
DirOf(src) == SubSeq(src, 1, Len(src) - 1)
TimesScanned(root) ==
    Cardinality({k \in 1 .. Len(scanned) : scanned[k] = root})
AttemptsIn(d) == Cardinality({k \in 1 .. Len(log) : DirOf(log[k].src) = d})
ModulesIn(d) ==
    Cardinality({i \in 1 .. nfiles[d] :
                    known[filePath(d, FileNames[i])] # "skip"})
Before(c, i) == IF i <= Len(c) THEN c[i] ELSE 0

\* C4 (as the specification states it): loading happens once per process;
\* whatever loadPlugins and destroyPlugins calls came before, a second
\* loadPlugins call, enabled or not, fails the precondition check and does
\* not scan or return.
C4_SecondCallFails ==
    [][(LoadCalled /\ nLoads >= 1) => pmpc' = "aborted"]_vars

\* C4 (amended): a loadPlugins call fails the precondition check exactly
\* when the active set is not empty and assert() is compiled in; a call made
\* while the active set is empty passes it, returns if plugins are disabled
\* and starts a scan if they are enabled, also when it is not the first call.
C4_FailsOnlyWhenActive ==
    [][LoadCalled =>
          /\ (pmpc' = "aborted") <=> (assertsEnabled /\ plugins # <<>>)
          /\ (lastCall'.enable /\ plugins = <<>>) => pmpc' = "scan"
          /\ (~lastCall'.enable /\ plugins = <<>>) => pmpc' = "idle"]_vars

\* in a build with assert(), a second loadPlugins call has passed the check
\* and started another scan after plugins were loaded and destroyed
C4_Witness ==
    /\ assertsEnabled
    /\ nLoads = 2
    /\ lastCall = Call("load", TRUE, "scanning")
    /\ deleted # {}

\* C5: in one loadPlugins call every root is scanned at most once, no two
\* active entries own the same instance, and no module is the source of two
\* active entries.
C5_NoDoubleLoad ==
    /\ \A i, j \in 1 .. Len(scanned) : i # j => scanned[i] # scanned[j]
    /\ \A i, j \in 1 .. Len(plugins) :
          i # j => /\ plugins[i].inst # plugins[j].inst
                   /\ plugins[i].src # plugins[j].src

\* C6: a load attempt that fails (the library does not load, its root is
\* not an IaitoPlugin, the import fails, the factory is missing, not
\* callable, raises, returns something that is not a plugin or returns
\* null) yields no instance and changes neither the active set nor any
\* setupPlugin or terminate count; every active entry comes from a module
\* that held a plugin; setupPlugin is invoked only on an instance that
\* enters the active set, and terminate only on instances of active entries.
C6_FailedNeverActive ==
    /\ [][last'.kind \in FailKinds =>
            /\ last'.inst = 0 /\ pmpc' # "pysetup"
            /\ UNCHANGED <<plugins, setupCount, termCount, nextInst, cache,
                           pyCur>>]_vars
    /\ [](\A k \in 1 .. Len(plugins) : known[plugins[k].src] = "plugin")
    /\ [][\A i \in 1 .. Len(setupCount') :
            setupCount'[i] > Before(setupCount, i) =>
               \E k \in 1 .. Len(plugins') :
                  /\ plugins'[k].inst = i
                  /\ known'[plugins'[k].src] = "plugin"]_vars
    /\ [][\A i \in 1 .. Len(termCount') :
            termCount'[i] > Before(termCount, i) =>
               \E k \in 1 .. Len(plugins) : plugins[k].inst = i]_vars

\* a Python module whose factory result is not a plugin has just failed
\* while a plugin loaded before it is active
C6_Witness ==
    /\ last.kind = "not_convertible"
    /\ plugins # <<>>
    /\ \A k \in 1 .. Len(plugins) : plugins[k].src # last.src

\* C7: during a scan and when loadPlugins has returned, the active set is
\* what it was at the call followed by the attempts that gave an instance,
\* in the order of the scan; a failed attempt leaves the loop at the next
\* entry of the same directory; when the scan is over every module of every
\* directory listed was attempted, once per scan of its root; and a step of
\* a scan only appends to the active set.
C7_SuccessfulSubsequence ==
    /\ []((InScan \/ JustLoaded) => Proj(plugins) = Proj(base) \o Oks(log))
    /\ [](JustLoaded =>
            \A d \in SubDirs :
               nfiles[d] >= 0 =>
                  AttemptsIn(d) = ModulesIn(d) * TimesScanned(DirOf(d)))
    /\ [][last'.kind \in FailKinds =>
            /\ idx' = idx + 1 /\ queue' = queue
            /\ pmpc' = IF pmpc = "native" THEN "native" ELSE "python"]_vars
    /\ [][InScan =>
            /\ Len(plugins') >= Len(plugins)
            /\ SubSeq(plugins', 1, Len(plugins)) = plugins]_vars

\* loadPlugins has returned after a module that loaded, one that failed and
\* another that loaded, and the two that loaded are the active set
C7_Witness ==
    /\ JustLoaded
    /\ Len(plugins) = 2
    /\ \E i, j, k \in 1 .. Len(log) :
          /\ i < j /\ j < k
          /\ log[i].inst = plugins[1].inst /\ log[i].src = plugins[1].src
          /\ log[j].inst = 0
          /\ log[k].inst = plugins[2].inst /\ log[k].src = plugins[2].src
          /\ log[i].src # log[k].src

\* C8: destroyPlugins invokes terminate() exactly once on every active
\* instance and then releases it: no instance is terminated twice, none is
\* used after it was deleted, the deleted instances are the ones terminated
\* once, no active entry holds a deleted instance, the active set is empty
\* after the call, a call with nothing loaded changes nothing, and an entry
\* leaves the active set and an instance is deleted only in destroyPlugins.
C8_TerminateOnceThenRelease ==
    /\ [](/\ ~uaf
          /\ \A i \in 1 .. Len(termCount) :
                /\ termCount[i] <= 1
                /\ (i \in deleted) <=> (termCount[i] = 1)
          /\ \A k \in 1 .. Len(plugins) : plugins[k].inst \notin deleted
          /\ lastCall.op = "destroy" => plugins = <<>>)
    /\ [][(lastCall'.op = "destroy" /\ plugins = <<>>) =>
            UNCHANGED <<termCount, deleted, setupCount, cache, uaf,
                        pmpc>>]_vars
    /\ [][(Len(plugins') < Len(plugins) \/ deleted' # deleted) =>
            lastCall'.op = "destroy"]_vars

\* C9: a loadPlugins(false) call resolves and creates no directory, lists
\* none, loads, sets up and queues nothing and leaves the active set as it
\* was, so empty when it was empty at the call, as the precondition of
\* loadPlugins requires; it returns, or fails the assert when the
\* precondition does not hold.
C9_DisabledLoadsNothing ==
    [][(LoadCalled /\ ~lastCall'.enable) =>
          /\ UNCHANGED <<fs, mkdirs, nfiles, known, cache, plugins, queue,
                         scanned, log, setupCount, termCount, nextInst>>
          /\ plugins = <<>> => (plugins' = <<>> /\ pmpc' = "idle")
          /\ pmpc' \in {"idle", "aborted"}
          /\ lastCall'.end \in {"return", "assert"}]_vars

\* loadPlugins(false) has returned as the first call of the process:
\* nothing is active, no directory was looked at or made
C9_Witness ==
    /\ lastCall = Call("load", FALSE, "return")
    /\ nLoads = 1
    /\ plugins = <<>> /\ mkdirs = {}
    /\ \A d \in FsDirs : fs[d] = "?"

\* C10: getPluginDirectories returns a list with no directory twice, also
\* when a directory of the override list equals a standard location or is
\* repeated: the standard locations in their order, the writable one first,
\* then directories of the override list.
C10_OrderedDeduplicated ==
    resolved # <<"?">> =>
       /\ \A i, j \in 1 .. Len(resolved) :
             i # j => absolutePath(resolved[i]) # absolutePath(resolved[j])
       /\ writableLoc # <<>> => resolved[1] = filePath(writableLoc, "plugins")
       /\ \A i \in 1 .. Len(resolved) :
             IF i <= Len(stdLocs)
             THEN resolved[i] = filePath(stdLocs[i], "plugins")
             ELSE \E k \in 1 .. Len(extraParts) : resolved[i] = extraParts[k]

\* C15: from the moment loadPythonPlugins is entered for a directory to
\* its return (the search path is added, modules are imported, their
\* factories called, the results converted and set up) the interpreter lock
\* is held, also between two modules.
C15_LockHeldForPass ==
    pmpc \in {"python", "pyimport", "pysetup"} => gil > 0

\* C17: every entry of the active set holds an instance on which
\* setupPlugin() was invoked exactly once and terminate() never, and which
\* was not deleted.
C17_ActiveIsSetUpOnce ==
    \A k \in 1 .. Len(plugins) :
       LET i == plugins[k].inst
       IN  /\ i \in 1 .. Len(setupCount) /\ setupCount[i] = 1
           /\ termCount[i] = 0
           /\ i \notin deleted

\* C18: the lock is held only inside loadPythonPlugin; whichever way the
\* load of a module ends (import failure, factory missing, not callable or
\* raising, result not convertible, null plugin, success) the lock is free
\* when loadPythonPlugin has returned, and it is free when loadPythonPlugins
\* and loadPlugins have returned.
C18_LockReleasedOnEveryExit ==
    /\ [](gil = IF pmpc = "pyimport" THEN 1 ELSE 0)
    /\ [][pmpc = "pyimport" =>
            (gil' = 0 /\ last'.kind \in PyKinds /\ pmpc' # "pyimport")]_vars

\* loadPlugins has returned with the lock free after a pass over a python
\* directory in which one module failed to load and another loaded
C18_Witness ==
    /\ JustLoaded /\ gil = 0
    /\ \E i, j \in 1 .. Len(log) :
          /\ log[i].inst = 0 /\ log[j].inst # 0
          /\ DirOf(log[i].src) = DirOf(log[j].src)
          /\ log[i].src[Len(log[i].src) - 1] = "python"

UserRoot == absolutePath(filePath(writableLoc, "plugins"))
EnterRootStep == pmpc = "scan" /\ queue # <<>> /\ scanned' # scanned

\* C19: mkdir and mkpath are only invoked on the user root and on its
\* native and python subdirectories; while another root is scanned no
\* directory is created; a root that does not exist is left at once, and a
\* missing native or python subdirectory is passed over, in both cases with
\* the active set unchanged and without stopping the scan.
C19_CreatesOnlyUnderUserRoot ==
    /\ [](\A d \in mkdirs : d = UserRoot \/ DirOf(d) = UserRoot)
    /\ [][(InScan /\ queue # <<>>) =>
            (CurRoot # UserRoot => mkdirs' = mkdirs)]_vars
    /\ [][EnterRootStep =>
            /\ fs'[CurRoot] = "no" =>
                  /\ queue' = Tail(queue) /\ pmpc' = "scan"
                  /\ UNCHANGED <<plugins, mkdirs, log, nfiles>>
            /\ (fs'[CurRoot] = "yes" /\ fs'[CurNative] = "no") =>
                  /\ pmpc' = "pyenter" /\ queue' = queue
                  /\ UNCHANGED <<plugins, log, nfiles>>]_vars
    /\ [][(pmpc \in {"native", "pyenter"} /\ pmpc' = "scan") =>
            /\ fs'[CurPython] = "no" /\ queue' = Tail(queue)
            /\ UNCHANGED <<plugins, log, nfiles>>]_vars

\* loadPlugins has returned: native/ was made under the user root, a plugin
\* is active, and the extra root, which does not exist, was passed over
C19_Witness ==
    /\ JustLoaded
    /\ filePath(UserRoot, "native") \in mkdirs
    /\ \E k \in 1 .. Len(scanned) : scanned[k] = Opt
    /\ fs[Opt] = "no"
    /\ plugins # <<>>

=============================================================================
